---- MODULE Spec2Model ----
(***************************************************************************)
(* Model of Hyy_MVA_Training.ipynb: the H->yy MVA training notebook.       *)
(*                                                                         *)
(* The notebook is a straight-line pipeline run cell by cell:              *)
(*   cell 4  load signal MC, load background MC, combine and shuffle       *)
(*   cell 5  define X, y, weights                                          *)
(*   cell 6  train/test split and StandardScaler                           *)
(*   cell 7  MLPClassifier fit                                             *)
(*   cell 8  evaluation                                                    *)
(*   cell 9  joblib.dump of model and scaler                               *)
(*                                                                         *)
(* Numbers are fixed point.  photon_pt, photon_e, photon_ptcone20 are in   *)
(* GeV; eta and phi are in 1/100; momentum components, m_yy and pt_yy are  *)
(* in 1/100 GeV; ratios (x / y) are in 1/1000.  NaN and Inf stand for the  *)
(* IEEE values of the same name.                                           *)
(***************************************************************************)
EXTENDS Integers, Sequences, FiniteSets, TLC

\* ------------------------------------------------------------------------
\* Bounds of the model
\* ------------------------------------------------------------------------
MaxFiles == 2      \* files matched by one glob pattern
MaxEvents == 2     \* events in one file
MaxRows == 4       \* rows collected over both loader calls of one run
MaxPhi == 330      \* largest |phi| (1/100 rad) of the dense range of angles

\* ------------------------------------------------------------------------
\* Floating point values
\* ------------------------------------------------------------------------
NaN == -2000000000
Inf == 2000000000

IsNaN(x) == x = NaN

\* x > c and x < c as IEEE comparisons: false on NaN
FGt(x, c) == (~IsNaN(x)) /\ (x = Inf \/ x > c)
FLt(x, c) == (~IsNaN(x)) /\ x # Inf /\ x < c

\* a / b in 1/1000, a and b in the same unit
FDiv(a, b) ==
    IF IsNaN(a) \/ IsNaN(b) THEN NaN
    ELSE IF b = 0 THEN (IF a = 0 THEN NaN ELSE IF a > 0 THEN Inf ELSE -Inf)
    ELSE (a * 1000) \div b

Abs(x) == IF x < 0 THEN -x ELSE x

RECURSIVE SqrtSearch(_, _, _)
SqrtSearch(n, lo, hi) ==
    IF lo >= hi THEN lo
    ELSE LET mid == (lo + hi + 1) \div 2
         IN  IF mid * mid <= n THEN SqrtSearch(n, mid, hi)
                               ELSE SqrtSearch(n, lo, mid - 1)

\* np.sqrt on a non-negative fixed point number (floor)
ISqrt(n) == SqrtSearch(n, 0, 46340)

\* np.cos, np.sin in 1/100 of an angle in 1/100 rad
Cos100(phi) ==
    CASE phi = 0 -> 100
      [] phi = 314 -> -100
      [] phi = -314 -> -100
      [] phi = 157 -> 0
      [] phi = -157 -> 0
      [] phi = 300 -> -99
      [] phi = -300 -> -99

Sin100(phi) ==
    CASE phi = 0 -> 0
      [] phi = 314 -> 0
      [] phi = -314 -> 0
      [] phi = 157 -> 100
      [] phi = -157 -> -100
      [] phi = 300 -> 14
      [] phi = -300 -> -14

\* np.sinh in 1/100 of a pseudorapidity in 1/100
Sinh100(eta) ==
    LET a == Abs(eta)
        s == CASE a = 0 -> 0
               [] a = 10 -> 10
               [] a = 20 -> 20
               [] a = 137 -> 184
               [] a = 140 -> 190
               [] a = 152 -> 218
    IN  IF eta < 0 THEN -s ELSE s

\* np.tanh(0.5 * d) in 1/1000, d in 1/100 (Pade approximant x(15+x^2)/(15+6x^2))
TanhHalf1000(d) ==
    LET u == Abs(d)
        t == (5 * u * ((600000 + u * u) \div 100)) \div ((600000 + 6 * u * u) \div 100)
    IN  IF d < 0 THEN -t ELSE t

\* ------------------------------------------------------------------------
\* Events: one record of the "analysis" tree restricted to branches_to_read_mc
\* ------------------------------------------------------------------------
branches_to_read_mc ==
    {"photon_pt", "photon_eta", "photon_phi", "photon_e",
     "photon_isTightID", "photon_ptcone20", "mcEventWeight"}

Ev(pt, eta, phi, e, tight, cone, w) ==
    [photon_pt |-> pt, photon_eta |-> eta, photon_phi |-> phi, photon_e |-> e,
     photon_isTightID |-> tight, photon_ptcone20 |-> cone, mcEventWeight |-> w]

\* The events input files hold.  A file lists its events by name.
Event(id) ==
    CASE id = "A" ->      \* passes every cut; back-to-back central photons
           Ev(<<60, 40>>, <<0, 0>>, <<0, 314>>, <<60, 40>>, <<TRUE, TRUE>>, <<1, 1>>, 1)
      [] id = "B" ->      \* passes every cut; |eta| exactly 1.37 and 1.52, a third
                          \* photon, negative weight
           Ev(<<60, 60, 20>>, <<-137, -152, 0>>, <<0, 314, 0>>, <<126, 144, 20>>,
              <<TRUE, TRUE, FALSE>>, <<1, 2, 9>>, -1)
      [] id = "NaNW" ->   \* passes every cut, weight is NaN
           Ev(<<60, 40>>, <<0, 0>>, <<0, 314>>, <<60, 40>>, <<TRUE, TRUE>>, <<1, 1>>, NaN)
      [] id = "1Ph" ->    \* a single photon
           Ev(<<60>>, <<0>>, <<0>>, <<60>>, <<TRUE>>, <<1>>, 1)
      [] id = "Loose" ->  \* sub-leading photon not tight
           Ev(<<60, 40>>, <<0, 0>>, <<0, 314>>, <<60, 40>>, <<TRUE, FALSE>>, <<1, 1>>, 1)
      [] id = "Pt50" ->   \* leading pt exactly 50
           Ev(<<50, 40>>, <<0, 0>>, <<0, 314>>, <<50, 40>>, <<TRUE, TRUE>>, <<1, 1>>, 1)
      [] id = "Pt30" ->   \* sub-leading pt exactly 30
           Ev(<<60, 30>>, <<0, 0>>, <<0, 314>>, <<60, 30>>, <<TRUE, TRUE>>, <<1, 1>>, 1)
      [] id = "Iso" ->    \* sub-leading isolation 3/40 = 0.075
           Ev(<<60, 40>>, <<0, 0>>, <<0, 314>>, <<60, 40>>, <<TRUE, TRUE>>, <<1, 3>>, 1)
      [] id = "Eta" ->    \* leading |eta| = 1.40, inside the transition region
           Ev(<<60, 60>>, <<-140, -137>>, <<0, 314>>, <<129, 126>>, <<TRUE, TRUE>>,
              <<1, 1>>, 1)
      [] id = "Mass" ->   \* sub-leading pt / m_yy = 36 / 120 = 0.3
           Ev(<<100, 36>>, <<0, 0>>, <<0, 314>>, <<100, 36>>, <<TRUE, TRUE>>, <<1, 1>>, 1)

Events == {"A", "B", "NaNW", "1Ph", "Loose", "Pt50", "Pt30", "Iso", "Eta", "Mass"}

\* the events that fill the larger batches
BatchEvents == {"A", "B", "Eta"}

\* batches of exactly n events
RECURSIVE BatchesOf(_)
BatchesOf(n) ==
    IF n = 0 THEN {<<>>}
    ELSE {Append(b, e) : b \in BatchesOf(n - 1), e \in BatchEvents}

\* the event batches a readable file can hold: none, any single event, or
\* up to MaxEvents of BatchEvents
Batches ==
    {<<e>> : e \in Events} \cup UNION {BatchesOf(n) : n \in 0..MaxEvents}

\* ------------------------------------------------------------------------
\* Pre-selection cuts of load_and_preprocess_mc_for_mva, one event at a time
\* (the notebook applies each as a boolean mask over the batch)
\* ------------------------------------------------------------------------
n_photons(ev) == Len(ev.photon_pt)

n_photons_cut(ev) == n_photons(ev) >= 2

\* "|" written for "&"
tight_id_cut_either(ev) ==
    (ev.photon_isTightID[1] = TRUE) \/ (ev.photon_isTightID[2] = TRUE)

tight_id_cut(ev) ==
    (ev.photon_isTightID[1] = TRUE) /\ (ev.photon_isTightID[2] = TRUE)

\* the thresholds taken as inclusive
pt_cut_inclusive(ev) == ev.photon_pt[1] >= 50 /\ ev.photon_pt[2] >= 30

pt_cut(ev) == FGt(ev.photon_pt[1], 50) /\ FGt(ev.photon_pt[2], 30)

iso_cut(ev) ==
    /\ FLt(FDiv(ev.photon_ptcone20[1], ev.photon_pt[1]), 55)
    /\ FLt(FDiv(ev.photon_ptcone20[2], ev.photon_pt[2]), 55)

\* the transition region with its two ends included
eta_cut_ph0_closed(ev) ==
    ~(Abs(ev.photon_eta[1]) >= 137 /\ Abs(ev.photon_eta[1]) <= 152)

eta_cut_ph0(ev) ==
    ~(FGt(Abs(ev.photon_eta[1]), 137) /\ FLt(Abs(ev.photon_eta[1]), 152))

eta_cut_ph1(ev) ==
    ~(FGt(Abs(ev.photon_eta[2]), 137) /\ FLt(Abs(ev.photon_eta[2]), 152))

eta_cut(ev) == eta_cut_ph0(ev) /\ eta_cut_ph1(ev)

\* vector.zip({pt, eta, phi, e})[:, i] in cartesian components (1/100 GeV)
p4_photons(ev, i) ==
    [x |-> ev.photon_pt[i] * Cos100(ev.photon_phi[i]),
     y |-> ev.photon_pt[i] * Sin100(ev.photon_phi[i]),
     z |-> ev.photon_pt[i] * Sinh100(ev.photon_eta[i]),
     t |-> ev.photon_e[i] * 100]

diphoton(ev) ==
    LET a == p4_photons(ev, 1)
        b == p4_photons(ev, 2)
    IN  [x |-> a.x + b.x, y |-> a.y + b.y, z |-> a.z + b.z, t |-> a.t + b.t]

\* diphoton.mass : copysign(sqrt(|t^2 - x^2 - y^2 - z^2|), t^2 - x^2 - y^2 - z^2)
Mass(p) ==
    LET m2 == p.t * p.t - p.x * p.x - p.y * p.y - p.z * p.z
    IN  IF m2 < 0 THEN -ISqrt(-m2) ELSE ISqrt(m2)

m_yy(ev) == Mass(diphoton(ev))

\* diphoton.pt
pt_yy(ev) ==
    LET p == diphoton(ev) IN ISqrt(p.x * p.x + p.y * p.y)

\* the mass-based cut on the leading photon only
mass_iso_cut_leading_only(ev) ==
    FGt(FDiv(ev.photon_pt[1] * 100, m_yy(ev)), 350)

mass_iso_cut(ev) ==
    /\ FGt(FDiv(ev.photon_pt[1] * 100, m_yy(ev)), 350)
    /\ FGt(FDiv(ev.photon_pt[2] * 100, m_yy(ev)), 350)

\* the five masks after n_photons >= 2, each applied to the events the
\* previous one kept
Preselect(batch) ==
    LET events == [i \in 1..Len(batch) |-> Event(batch[i])]
        e0 == SelectSeq(events, n_photons_cut)
        e1 == SelectSeq(e0, tight_id_cut)
        e2 == SelectSeq(e1, pt_cut)
        e3 == SelectSeq(e2, iso_cut)
        e4 == SelectSeq(e3, eta_cut)
    IN  SelectSeq(e4, mass_iso_cut)

\* ------------------------------------------------------------------------
\* Feature engineering
\* ------------------------------------------------------------------------
Pi100 == 314

\* the difference without the wrap-around
delta_phi_yy_nowrap(phi1, phi2) == Abs(phi1 - phi2)

delta_phi_yy(phi1, phi2) ==
    LET delta_phi_yy_raw == phi1 - phi2
    IN  Abs(((delta_phi_yy_raw + Pi100) % (2 * Pi100)) - Pi100)

delta_eta_yy(eta1, eta2) == Abs(eta1 - eta2)

delta_R_yy(ev) ==
    LET de == delta_eta_yy(ev.photon_eta[1], ev.photon_eta[2])
        dp == delta_phi_yy(ev.photon_phi[1], ev.photon_phi[2])
    IN  ISqrt(de * de + dp * dp)

cos_theta_cs_yy(ev) == Abs(TanhHalf1000(ev.photon_eta[1] - ev.photon_eta[2]))

\* every weight defaulted to one
event_weights_ones(ev) == 1

\* events.mcEventWeight (a scalar per event), or ones when the field is absent
event_weights(ev) ==
    IF "mcEventWeight" \in branches_to_read_mc THEN ev.mcEventWeight ELSE 1

\* the columns of df_dict, in order
Columns ==
    <<"ph1_pt_norm", "ph2_pt_norm", "ph1_eta", "ph2_eta", "delta_eta_yy",
      "delta_phi_yy", "delta_R_yy", "ph1_ptcone20_norm", "ph2_ptcone20_norm",
      "cos_theta_cs_yy", "m_yy", "pt_yy", "eventWeight", "isSignal">>

\* the name of an event of the catalogue, "-" for any other event
IdOf(ev) ==
    IF \E id \in Events : Event(id) = ev
    THEN CHOOSE id \in Events : Event(id) = ev
    ELSE "-"

\* one row of df_dict; src names the event the row was computed from (history)
MakeRow(ev, is_signal_flag) ==
    LET m_yy_final == m_yy(ev)
    IN  [ph1_pt_norm |-> FDiv(ev.photon_pt[1] * 100, m_yy_final),
         ph2_pt_norm |-> FDiv(ev.photon_pt[2] * 100, m_yy_final),
         ph1_eta |-> ev.photon_eta[1],
         ph2_eta |-> ev.photon_eta[2],
         delta_eta_yy |-> delta_eta_yy(ev.photon_eta[1], ev.photon_eta[2]),
         delta_phi_yy |-> delta_phi_yy(ev.photon_phi[1], ev.photon_phi[2]),
         delta_R_yy |-> delta_R_yy(ev),
         ph1_ptcone20_norm |-> FDiv(ev.photon_ptcone20[1], ev.photon_pt[1]),
         ph2_ptcone20_norm |-> FDiv(ev.photon_ptcone20[2], ev.photon_pt[2]),
         cos_theta_cs_yy |-> cos_theta_cs_yy(ev),
         m_yy |-> m_yy_final,
         pt_yy |-> pt_yy(ev),
         eventWeight |-> event_weights(ev),
         isSignal |-> is_signal_flag,
         src |-> IdOf(ev)]

RECURSIVE MapRows(_, _)
MapRows(events, is_signal_flag) ==
    IF events = <<>> THEN <<>>
    ELSE <<MakeRow(Head(events), is_signal_flag)>>
             \o MapRows(Tail(events), is_signal_flag)

\* the body of the file loop after a successful read: the DataFrame appended
\* to df_list, or <<>> when the loop continues without appending
ProcessBatch(events, is_signal_flag) ==
    MapRows(Preselect(events), is_signal_flag)

\* a row with a NaN in some column
HasNaN(row) == \E i \in 1..Len(Columns) : IsNaN(row[Columns[i]])

NotNaN(row) == ~HasNaN(row)

\* final_df.dropna()
dropna(df) == SelectSeq(df, NotNaN)

RECURSIVE concat_reversed(_)
\* the frames concatenated last file first
concat_reversed(df_list) ==
    IF df_list = <<>> THEN <<>> ELSE concat_reversed(Tail(df_list)) \o Head(df_list)

RECURSIVE concat(_)
\* pd.concat(df_list, ignore_index=True)
concat(df_list) ==
    IF df_list = <<>> THEN <<>> ELSE Head(df_list) \o concat(Tail(df_list))

\* ------------------------------------------------------------------------
\* Files a glob pattern can match
\* ------------------------------------------------------------------------
\* a file that cannot be opened, or has no "analysis" tree
UnreadableFile == [readable |-> FALSE, branches |-> branches_to_read_mc, events |-> <<>>]

\* a readable file whose tree has every photon branch but no mcEventWeight
NoWeightFile ==
    [readable |-> TRUE, branches |-> branches_to_read_mc \ {"mcEventWeight"},
     events |-> <<"A">>]

Files ==
    {UnreadableFile, NoWeightFile}
        \cup {[readable |-> TRUE, branches |-> branches_to_read_mc, events |-> b] :
                  b \in Batches}

\* uproot.open(...) and tree.arrays(branches_param) return without raising
ReadOk(file) == file.readable /\ branches_to_read_mc \subseteq file.branches

\* the DataFrame one iteration of the file loop appends to df_list;
\* <<>> when it appends none (read error, no events, a cut left no event)
FileFrame(file, is_signal_flag) ==
    IF ReadOk(file) THEN ProcessBatch(file.events, is_signal_flag) ELSE <<>>

\* FileFrame of every file and flag, computed once
FileFrames == [file \in Files, flag \in {0, 1} |-> FileFrame(file, flag)]

\* the number of events of a file that satisfy every cut, whether or not
\* the file could be read (history)
Survivors == [file \in Files |-> Len(Preselect(file.events))]

\* ------------------------------------------------------------------------
\* Configuration (cell 2)
\* ------------------------------------------------------------------------
mva_model_path == "hyy_mva_model.pkl"
mva_scaler_path == "hyy_mva_scaler.pkl"

\* mva_features_list as written in the notebook
DeclaredFeatures ==
    <<"ph1_pt_norm", "ph2_pt_norm", "ph1_eta", "ph2_eta", "delta_eta_yy",
      "delta_phi_yy", "delta_R_yy", "ph1_ptcone20_norm", "ph2_ptcone20_norm",
      "cos_theta_cs_yy">>

\* the list with one of the commented-out features added by the user
ExtendedFeatures == Append(DeclaredFeatures, "ph1_isTightID")

\* ------------------------------------------------------------------------
\* Library calls
\* ------------------------------------------------------------------------
\* np.random.RandomState(42).permutation(n), 0-based
Perm42(n) ==
    CASE n = 0 -> <<>>
      [] n = 1 -> <<0>>
      [] n = 2 -> <<1, 0>>
      [] n = 3 -> <<0, 1, 2>>
      [] n = 4 -> <<1, 3, 0, 2>>
      [] n = 5 -> <<1, 4, 2, 0, 3>>
      [] n = 6 -> <<0, 1, 5, 2, 4, 3>>
      [] n = 7 -> <<0, 1, 5, 2, 4, 3, 6>>
      [] n = 8 -> <<1, 5, 0, 7, 2, 4, 3, 6>>
      [] n = 9 -> <<7, 1, 5, 0, 8, 2, 4, 3, 6>>
      [] n = 10 -> <<8, 1, 5, 0, 7, 2, 9, 4, 3, 6>>

\* no shuffle
sample_identity(df) == df

\* df.sample(frac=1, random_state=42).reset_index(drop=True)
sample(df) == [i \in 1..Len(df) |-> df[Perm42(Len(df))[i] + 1]]

\* the rows of s at the indices in idx, in ascending index order
RECURSIVE TakeFrom(_, _, _)
TakeFrom(s, idx, i) ==
    IF i > Len(s) THEN <<>>
    ELSE (IF i \in idx THEN <<s[i]>> ELSE <<>>) \o TakeFrom(s, idx, i + 1)

Take(s, idx) == TakeFrom(s, idx, 1)

RECURSIVE SumSeq(_)
SumSeq(s) == IF s = <<>> THEN 0 ELSE Head(s) + SumSeq(Tail(s))

\* y.nunique()
nunique(ys) == Cardinality({ys[i] : i \in 1..Len(ys)})

\* number of members of the least populated class
MinClassCount(ys) ==
    LET cnt(c) == Cardinality({i \in 1..Len(ys) : ys[i] = c})
        cs == {ys[i] : i \in 1..Len(ys)}
    IN  CHOOSE m \in {cnt(c) : c \in cs} : \A c \in cs : m <= cnt(c)

\* ceil(0.3 * n), test_size=0.3
n_test_of(n) == (3 * n + 9) \div 10

n_train_of(n) == n - n_test_of(n)

\* train_test_split raises ValueError: empty train set, or with stratify a
\* class of one member or a partition smaller than the number of classes
SplitRaises(ys, stratified) ==
    LET n == Len(ys) IN
    \/ n_train_of(n) = 0
    \/ /\ stratified
       /\ \/ MinClassCount(ys) < 2
          \/ n_train_of(n) < nunique(ys)
          \/ n_test_of(n) < nunique(ys)

\* the test partitions train_test_split can return for n rows: the partition
\* is a function of n, y and random_state only, never of the values in X
TestIndexSets(n) == {T \in SUBSET (1..n) : Cardinality(T) = n_test_of(n)}

\* the scaler fitted on every row of X
FitRows_all(Xs, test_idx) == Xs

\* the rows StandardScaler is fitted on: X_train
FitRows(Xs, test_idx) == Take(Xs, (1..Len(Xs)) \ test_idx)

\* the rows of X_test
TestRows(Xs, test_idx) == Take(Xs, test_idx)

\* column j of a table of feature vectors
Col(Xs, j) == [i \in 1..Len(Xs) |-> Xs[i][j]]

\* 1.0 in the fixed point unit of a column
FixedOne(name) ==
    IF name \in {"ph1_eta", "ph2_eta", "delta_eta_yy", "delta_phi_yy", "delta_R_yy",
                 "m_yy", "pt_yy"}
    THEN 100 ELSE 1000

\* StandardScaler().fit(X_train): per-feature mean_ and scale_; a zero
\* standard deviation is replaced by 1.0
StandardScaler_fit(Xtr, names) ==
    LET n == Len(Xtr)
        k == Len(names)
        mean(j) == SumSeq(Col(Xtr, j)) \div n
        var(j) == SumSeq([i \in 1..n |-> (Xtr[i][j] - mean(j)) * (Xtr[i][j] - mean(j))]) \div n
        std(j) == ISqrt(var(j))
    IN  [state |-> "fitted",
         mean_ |-> [j \in 1..k |-> mean(j)],
         scale_ |-> [j \in 1..k |-> IF std(j) = 0 THEN FixedOne(names[j]) ELSE std(j)]]

\* scaler.transform(X): (x - mean_) / scale_ in 1/1000
StandardScaler_transform(sc, Xs) ==
    [i \in 1..Len(Xs) |->
        [j \in 1..Len(Xs[i]) |-> FDiv(Xs[i][j] - sc.mean_[j], sc.scale_[j])]]

\* check_array: a value that is not finite makes fit raise ValueError
AllFinite(Xs) ==
    \A i \in 1..Len(Xs) : \A j \in 1..Len(Xs[i]) :
        Xs[i][j] # Inf /\ Xs[i][j] # -Inf /\ Xs[i][j] # NaN

\* ------------------------------------------------------------------------
\* State
\* ------------------------------------------------------------------------
VARIABLES
    pc,                 \* the step of the run that executes next
    mva_features_list,  \* cell 2
    all_files,          \* loader: number of files glob.glob returned
    file_idx,           \* loader: number of files the loop has consumed
    df_list,            \* loader: the per-file DataFrames collected so far
    file_log,           \* history: what each consumed file was and yielded
    df_signal_mc, df_background_mc, df_combined_mc,     \* cell 4
    X, y, weights,                                      \* cell 5
    test_idx,           \* cell 6: the row indices train_test_split put in test
    X_train, X_test, y_train, y_test, w_train, w_test,  \* cell 6
    scaler, X_train_scaled, X_test_scaled,              \* cell 6
    alt_scaler,         \* history: the scaler of the run that differs in test rows only
    mlp_model,          \* cell 7
    evaluated,          \* cell 8 computed the ROC curve and confusion matrix
    disk,               \* cell 9: path -> object dumped by this run
    out,                \* what the run has printed
    ev_batch,           \* loader, statement by statement: events of the current file
    ev_read,            \* history: events as tree.arrays returned them
    m_yy_arr,           \* loader: m_yy of line 234, and its entries the mask keeps
    ran,                \* history: the masks applied to the current file
    ph1_phi, ph2_phi,   \* feature engine: two azimuthal angles
    dphi                \* feature engine: delta_phi_yy of the two

loader_vars == <<all_files, file_idx, df_list, file_log>>
cell4_vars == <<df_signal_mc, df_background_mc, df_combined_mc>>
cell5_vars == <<X, y, weights>>
cell6_vars == <<test_idx, X_train, X_test, y_train, y_test, w_train, w_test,
                scaler, X_train_scaled, X_test_scaled, alt_scaler>>
body_vars == <<ev_batch, ev_read, m_yy_arr, ran>>
phi_vars == <<ph1_phi, ph2_phi, dphi>>
vars == <<pc, mva_features_list, loader_vars, cell4_vars, cell5_vars, cell6_vars,
          mlp_model, evaluated, disk, out, body_vars, phi_vars>>

\* a name the kernel has not bound
Undef == [state |-> "undef"]
\* the skip branch of cell 7 leaving mlp_model as the kernel held it
NoneNotAssigned == [state |-> "stale"]

\* mlp_model = None
None == [state |-> "None"]
\* objects a previous run of the notebook left in the kernel
StaleModel == [state |-> "stale"]
StaleScaler == [state |-> "stale"]

\* a test that the name is bound, in place of its truth value
TruthyWhenBound(obj) == obj.state # "undef"

\* bool(obj) of a bound name
Truthy(obj) == obj.state \in {"stale", "fitted"}

\* a printed line: what it reports, about which side or cell, and the names it lists
Msg(tag, about, names) == [tag |-> tag, about |-> about, names |-> names]

\* m_yy not computed yet
NoMass == [all |-> <<>>, kept |-> <<>>]

\* no file written yet
NoFiles == [p \in {} |-> Undef]

Init ==
    /\ pc = "signal_glob"
    /\ mva_features_list \in {DeclaredFeatures, ExtendedFeatures}
    /\ all_files = 0 /\ file_idx = 0 /\ df_list = <<>> /\ file_log = <<>>
    /\ df_signal_mc = <<>> /\ df_background_mc = <<>> /\ df_combined_mc = <<>>
    /\ X = <<>> /\ y = <<>> /\ weights = <<>>
    /\ test_idx = {}
    /\ X_train = <<>> /\ X_test = <<>> /\ y_train = <<>> /\ y_test = <<>>
    /\ w_train = <<>> /\ w_test = <<>>
    /\ X_train_scaled = <<>> /\ X_test_scaled = <<>>
    /\ \E stale \in BOOLEAN :
          /\ scaler = (IF stale THEN StaleScaler ELSE Undef)
          /\ mlp_model = (IF stale THEN StaleModel ELSE Undef)
    /\ alt_scaler = Undef
    /\ evaluated = FALSE
    /\ disk = NoFiles
    /\ out = {}
    /\ ev_batch = <<>> /\ ev_read = <<>> /\ ran = <<>>
    /\ m_yy_arr = NoMass
    /\ ph1_phi = 0 /\ ph2_phi = 0 /\ dphi = 0

\* ------------------------------------------------------------------------
\* load_and_preprocess_mc_for_mva, called twice by cell 4
\* ------------------------------------------------------------------------
Loading == pc \in {"signal_glob", "signal_loop", "background_glob", "background_loop"}

Side == IF pc \in {"signal_glob", "signal_loop"} THEN "signal" ELSE "background"

is_signal_flag == IF Side = "signal" THEN 1 ELSE 0

\* the statement of cell 4 that receives the loader's return value, and the
\* step after it
Return(df) ==
    IF Side = "signal"
    THEN /\ df_signal_mc' = df
         /\ pc' = "background_glob"
         /\ UNCHANGED <<df_background_mc, df_combined_mc>>
    ELSE /\ df_background_mc' = df
         /\ pc' = "combine"
         /\ UNCHANGED <<df_signal_mc, df_combined_mc>>

\* all_files = glob.glob(pattern); an empty match returns pd.DataFrame()
Glob ==
    /\ pc \in {"signal_glob", "background_glob"}
    /\ \E n \in 0..MaxFiles :
          /\ all_files' = n
          /\ file_idx' = 0
          /\ df_list' = <<>>
          /\ file_log' = <<>>
          /\ IF n = 0
             THEN /\ out' = out \cup {Msg("no_files_found", Side, <<>>)}
                  /\ Return(<<>>)
             ELSE /\ out' = out
                  /\ pc' = (IF Side = "signal" THEN "signal_loop" ELSE "background_loop")
                  /\ UNCHANGED cell4_vars
    /\ UNCHANGED <<body_vars, phi_vars, mva_features_list, cell5_vars, cell6_vars, mlp_model, evaluated, disk>>

\* rows the run holds so far (bounds the model)
RowsHeld == Len(df_signal_mc) + Len(concat(df_list))

\* what one iteration of the file loop prints
FilePrint(file) ==
    IF ~ReadOk(file) THEN "error_opening_or_reading_file"
    ELSE IF Len(file.events) = 0 THEN "no_events_in_file"
    ELSE "nothing"

\* one iteration of "for file_path in all_files"
ReadFile ==
    /\ pc \in {"signal_loop", "background_loop"}
    /\ file_idx < all_files
    /\ \E file \in Files :
          LET rows == FileFrames[file, is_signal_flag]
          IN  /\ RowsHeld + Len(rows) <= MaxRows
              /\ file_idx' = file_idx + 1
              /\ df_list' = (IF rows = <<>> THEN df_list ELSE Append(df_list, rows))
              /\ file_log' = Append(file_log,
                                    [ok |-> ReadOk(file),
                                     printed |-> FilePrint(file),
                                     rows |-> rows,
                                     readable |-> file.readable,
                                     branches |-> file.branches,
                                     survivors |-> Survivors[file]])
    /\ UNCHANGED <<body_vars, phi_vars, pc, mva_features_list, all_files, cell4_vars, cell5_vars, cell6_vars,
                   mlp_model, evaluated, disk, out>>

\* what the function returns once the loop is over
LoaderResult(dfs) == IF dfs = <<>> THEN <<>> ELSE dropna(concat(dfs))

LoaderReturn ==
    /\ pc \in {"signal_loop", "background_loop"}
    /\ file_idx = all_files
    /\ Return(LoaderResult(df_list))
    /\ UNCHANGED <<body_vars, phi_vars, mva_features_list, loader_vars, cell5_vars, cell6_vars,
                   mlp_model, evaluated, disk, out>>

\* ------------------------------------------------------------------------
\* cell 4: combine signal and background
\* ------------------------------------------------------------------------
empty(df) == Len(df) = 0

\* a single-sided input treated like an empty one
CombineResult_both_required(sig, bkg) ==
    IF Len(sig) > 0 /\ Len(bkg) > 0 THEN sig \o bkg ELSE <<>>

CombineResult(sig, bkg) ==
    IF ~empty(sig) /\ ~empty(bkg) THEN sample(sig \o bkg)
    ELSE IF ~empty(sig) THEN sig
    ELSE IF ~empty(bkg) THEN bkg
    ELSE <<>>

CombineMessage(sig, bkg) ==
    IF ~empty(sig) /\ ~empty(bkg) THEN Msg("combined_and_shuffled", "both", <<>>)
    ELSE IF ~empty(sig) THEN Msg("warning_empty", "background", <<>>)
    ELSE IF ~empty(bkg) THEN Msg("warning_empty", "signal", <<>>)
    ELSE Msg("error_both_empty", "both", <<>>)

Combine ==
    /\ pc = "combine"
    /\ df_combined_mc' = CombineResult(df_signal_mc, df_background_mc)
    /\ out' = out \cup {CombineMessage(df_signal_mc, df_background_mc)}
    /\ pc' = "cell5"
    /\ all_files' = 0 /\ file_idx' = 0 /\ df_list' = <<>> /\ file_log' = <<>>
    /\ UNCHANGED <<body_vars, phi_vars, mva_features_list, df_signal_mc, df_background_mc,
                   cell5_vars, cell6_vars, mlp_model, evaluated, disk>>

\* ------------------------------------------------------------------------
\* cell 5: define features (X) and target (y)
\* ------------------------------------------------------------------------
InColumns(f) == \E i \in 1..Len(Columns) : Columns[i] = f

NotInColumns(f) == ~InColumns(f)

\* the membership test inverted
missing_features_inverted(features) == SelectSeq(features, InColumns)

\* [f for f in mva_features_list if f not in df_combined_mc.columns]
missing_features(features) == SelectSeq(features, NotInColumns)

\* df[mva_features_list]: one vector of feature values per row
Project(df, features) ==
    [i \in 1..Len(df) |-> [j \in 1..Len(features) |-> df[i][features[j]]]]

Cell5 ==
    /\ pc = "cell5"
    /\ IF ~empty(df_combined_mc)
       THEN IF missing_features(mva_features_list) # <<>>
            THEN /\ out' = out \cup
                       {Msg("error_missing_features", "cell5",
                            missing_features(mva_features_list)),
                        Msg("available_columns", "cell5", Columns)}
                 /\ X' = <<>> /\ y' = <<>> /\ weights' = <<>>
            ELSE /\ X' = Project(df_combined_mc, mva_features_list)
                 /\ y' = [i \in 1..Len(df_combined_mc) |-> df_combined_mc[i].isSignal]
                 /\ weights' = [i \in 1..Len(df_combined_mc) |->
                                   df_combined_mc[i].eventWeight]
                 /\ out' = out \cup {Msg("features_defined", "cell5", <<>>)}
       ELSE /\ out' = out \cup {Msg("cannot_define_X_y", "cell5", <<>>)}
            /\ X' = <<>> /\ y' = <<>> /\ weights' = <<>>
    /\ pc' = "cell6"
    /\ UNCHANGED <<body_vars, phi_vars, mva_features_list, loader_vars, cell4_vars, cell6_vars,
                   mlp_model, evaluated, disk>>

\* ------------------------------------------------------------------------
\* cell 6: split data and scale features
\* ------------------------------------------------------------------------
\* an uncaught exception ends the run at this cell
Raise(cell) ==
    /\ pc' = "aborted"
    /\ out' = out \cup {Msg("exception", cell, <<>>)}

\* feature vectors a test row may hold in another run
AltRows ==
    {Project(<<MakeRow(Event("A"), 1)>>, mva_features_list)[1],
     Project(<<MakeRow(Event("B"), 1)>>, mva_features_list)[1],
     [j \in 1..Len(mva_features_list) |-> 0]}

\* the tables that differ from Xs at most in the rows of the test partition
AltTables(Xs, T) ==
    {[i \in 1..Len(Xs) |-> IF i \in T THEN alt[i] ELSE Xs[i]] : alt \in [T -> AltRows]}

Cell6 ==
    /\ pc = "cell6"
    /\ IF ~empty(X)
       THEN IF SplitRaises(y, nunique(y) > 1)
            THEN /\ Raise("cell6")
                 /\ UNCHANGED cell6_vars
            ELSE \E T \in TestIndexSets(Len(X)) :
                    /\ test_idx' = T
                    /\ X_train' = FitRows(X, T)
                    /\ X_test' = TestRows(X, T)
                    /\ y_train' = Take(y, (1..Len(y)) \ T)
                    /\ y_test' = Take(y, T)
                    /\ w_train' = Take(weights, (1..Len(weights)) \ T)
                    /\ w_test' = Take(weights, T)
                    /\ IF AllFinite(X)
                       THEN /\ scaler' = StandardScaler_fit(FitRows(X, T), mva_features_list)
                            /\ X_train_scaled' = StandardScaler_transform(scaler', X_train')
                            /\ X_test_scaled' = StandardScaler_transform(scaler', X_test')
                            /\ \E A \in AltTables(X, T) :
                                  alt_scaler' =
                                      StandardScaler_fit(FitRows(A, T), mva_features_list)
                            /\ out' = out \cup {Msg("features_scaled", "cell6", <<>>)}
                            /\ pc' = "cell7"
                       ELSE /\ Raise("cell6")
                            /\ UNCHANGED <<scaler, X_train_scaled, X_test_scaled, alt_scaler>>
       ELSE /\ out' = out \cup {Msg("skip_split_and_scale", "cell6", <<>>)}
            /\ X_train_scaled' = <<>> /\ X_test_scaled' = <<>>
            /\ y_train' = <<>> /\ y_test' = <<>>
            /\ w_train' = <<>> /\ w_test' = <<>>
            /\ pc' = "cell7"
            /\ UNCHANGED <<test_idx, X_train, X_test, scaler, alt_scaler>>
    /\ UNCHANGED <<body_vars, phi_vars, mva_features_list, loader_vars, cell4_vars, cell5_vars,
                   mlp_model, evaluated, disk>>

\* ------------------------------------------------------------------------
\* cell 7: train the neural network
\* ------------------------------------------------------------------------
\* MLPClassifier(...).fit(X_train_scaled, y_train): the fitted estimator
MLPClassifier_fit(Xs, ys) == [state |-> "fitted", X_fit |-> Xs, y_fit |-> ys]

\* fit validates its input and, with early_stopping, draws its own
\* validation split: it returns the estimator or raises
Cell7 ==
    /\ pc = "cell7"
    /\ IF Len(X_train_scaled) > 0
       THEN \E raises \in BOOLEAN :
               IF raises
               THEN /\ Raise("cell7")
                    /\ UNCHANGED mlp_model
               ELSE /\ mlp_model' = MLPClassifier_fit(X_train_scaled, y_train)
                    /\ out' = out \cup {Msg("training_complete", "cell7", <<>>)}
                    /\ pc' = "cell8"
       ELSE /\ out' = out \cup {Msg("skip_training", "cell7", <<>>)}
            /\ mlp_model' = None
            /\ pc' = "cell8"
    /\ UNCHANGED <<body_vars, phi_vars, mva_features_list, loader_vars, cell4_vars, cell5_vars, cell6_vars,
                   evaluated, disk>>

\* ------------------------------------------------------------------------
\* cell 8: evaluate model performance
\* ------------------------------------------------------------------------
\* roc_curve, auc and the plots validate what they are given (auc raises on
\* a false-positive rate that is not monotonic): the cell completes or raises
Cell8 ==
    /\ pc = "cell8"
    /\ IF Truthy(mlp_model) /\ Len(X_test_scaled) > 0
       THEN \E raises \in BOOLEAN :
               IF raises
               THEN /\ Raise("cell8")
                    /\ UNCHANGED evaluated
               ELSE /\ evaluated' = TRUE
                    /\ out' = out \cup {Msg("confusion_matrix", "cell8", <<>>)}
                    /\ pc' = "cell9"
       ELSE /\ evaluated' = evaluated
            /\ out' = out \cup {Msg("skip_evaluation", "cell8", <<>>)}
            /\ pc' = "cell9"
    /\ UNCHANGED <<body_vars, phi_vars, mva_features_list, loader_vars, cell4_vars, cell5_vars, cell6_vars,
                   mlp_model, disk>>

\* ------------------------------------------------------------------------
\* cell 9: save model and scaler
\* ------------------------------------------------------------------------
\* joblib.dump(obj, path)
dump(d, obj, path) == [q \in DOMAIN d \cup {path} |-> IF q = path THEN obj ELSE d[q]]

\* "or" written for "and": a truthy scaler alone is enough to save
Cell9_either ==
    /\ pc = "cell9"
    /\ IF ~Truthy(mlp_model) /\ scaler = Undef
       THEN /\ Raise("cell9")
            /\ UNCHANGED disk
       ELSE IF Truthy(mlp_model) \/ Truthy(scaler)
       THEN /\ disk' = dump(dump(disk, mlp_model, mva_model_path),
                            scaler, mva_scaler_path)
            /\ out' = out \cup {Msg("model_saved", mva_model_path, <<>>),
                                Msg("scaler_saved", mva_scaler_path, <<>>)}
            /\ pc' = "done"
       ELSE /\ out' = out \cup {Msg("skip_saving", "cell9", <<>>)}
            /\ pc' = "done"
            /\ UNCHANGED disk
    /\ UNCHANGED <<body_vars, phi_vars, mva_features_list, loader_vars, cell4_vars, cell5_vars, cell6_vars,
                   mlp_model, evaluated>>

\* "if mlp_model and scaler": scaler is looked up only when mlp_model is truthy
Cell9 ==
    /\ pc = "cell9"
    /\ IF Truthy(mlp_model)
       THEN IF scaler = Undef
            THEN /\ Raise("cell9")
                 /\ UNCHANGED disk
            ELSE IF Truthy(scaler)
            THEN /\ disk' = dump(dump(disk, mlp_model, mva_model_path),
                                 scaler, mva_scaler_path)
                 /\ out' = out \cup {Msg("model_saved", mva_model_path, <<>>),
                                     Msg("scaler_saved", mva_scaler_path, <<>>)}
                 /\ pc' = "done"
            ELSE /\ out' = out \cup {Msg("skip_saving", "cell9", <<>>)}
                 /\ pc' = "done"
                 /\ UNCHANGED disk
       ELSE /\ out' = out \cup {Msg("skip_saving", "cell9", <<>>)}
            /\ pc' = "done"
            /\ UNCHANGED disk
    /\ UNCHANGED <<body_vars, phi_vars, mva_features_list, loader_vars, cell4_vars, cell5_vars, cell6_vars,
                   mlp_model, evaluated>>

Next ==
    \/ Glob
    \/ ReadFile
    \/ LoaderReturn
    \/ Combine
    \/ Cell5
    \/ Cell6
    \/ Cell7
    \/ Cell8
    \/ Cell9

Spec == Init /\ [][Next]_vars

\* ------------------------------------------------------------------------
\* The kernel outside a run of the cells: what the statement-level
\* specifications below leave untouched
\* ------------------------------------------------------------------------
CellsIdle ==
    /\ mva_features_list = DeclaredFeatures
    /\ df_background_mc = <<>> /\ df_combined_mc = <<>>
    /\ X = <<>> /\ y = <<>> /\ weights = <<>>
    /\ test_idx = {}
    /\ X_train = <<>> /\ X_test = <<>> /\ y_train = <<>> /\ y_test = <<>>
    /\ w_train = <<>> /\ w_test = <<>>
    /\ X_train_scaled = <<>> /\ X_test_scaled = <<>>
    /\ scaler = Undef /\ alt_scaler = Undef /\ mlp_model = Undef
    /\ evaluated = FALSE
    /\ disk = NoFiles

cells_vars == <<mva_features_list, df_background_mc, df_combined_mc, cell5_vars,
                cell6_vars, mlp_model, evaluated, disk>>

\* ------------------------------------------------------------------------
\* delta_phi_yy (lines 272-274) on a pair of angles
\* ------------------------------------------------------------------------
\* angles in 1/100 rad: every value of a range past +/-pi, and a few values
\* at and beyond one and more turns
Phi1Values == (-MaxPhi)..MaxPhi
Phi2Values ==
    {-1000, -628, -330, -314, -300, -157, -1, 0, 1, 157, 300, 314, 330, 628, 1000}

InitDeltaPhi ==
    /\ pc = "delta_phi"
    /\ ph1_phi \in Phi1Values
    /\ ph2_phi \in Phi2Values
    /\ dphi = 0
    /\ all_files = 0 /\ file_idx = 0 /\ df_list = <<>> /\ file_log = <<>>
    /\ df_signal_mc = <<>>
    /\ out = {}
    /\ ev_batch = <<>> /\ ev_read = <<>> /\ ran = <<>>
    /\ m_yy_arr = NoMass
    /\ CellsIdle

ComputeDeltaPhi ==
    /\ pc = "delta_phi"
    /\ dphi' = delta_phi_yy(ph1_phi, ph2_phi)
    /\ pc' = "delta_phi_done"
    /\ UNCHANGED <<ph1_phi, ph2_phi, body_vars, loader_vars, df_signal_mc, out, cells_vars>>

NextDeltaPhi == ComputeDeltaPhi

SpecDeltaPhi == InitDeltaPhi /\ [][NextDeltaPhi]_vars

\* ------------------------------------------------------------------------
\* load_and_preprocess_mc_for_mva statement by statement: the body of the
\* file loop, one mask at a time, from the first file to the return
\* ------------------------------------------------------------------------
\* np.cosh in 1/100 of a pseudorapidity in 1/100
Cosh100(eta) ==
    LET a == Abs(eta)
    IN  CASE a = 0 -> 100
          [] a = 10 -> 101
          [] a = 20 -> 102
          [] a = 137 -> 209
          [] a = 140 -> 215
          [] a = 152 -> 239

\* the energy (GeV, rounded up) of a massless photon
PhotonE(pt, eta) == (pt * Cosh100(eta) + 99) \div 100

\* field values of two-photon events: on, inside and outside every threshold
GenPt == {<<60, 40>>, <<50, 40>>, <<60, 30>>, <<100, 36>>}
GenEta == {0, 137, -140, 152}
GenPhi == {<<0, 314>>, <<300, -300>>}
GenTight == {<<TRUE, TRUE>>, <<TRUE, FALSE>>, <<FALSE, TRUE>>}
GenCone == {<<1, 1>>, <<1, 3>>}

\* ptcone20 / pt exactly 0.055 and just below it, everything else passing
IsoEdgeEvents ==
    {Ev(<<200, 120>>, <<0, 0>>, <<0, 314>>, <<200, 120>>, <<TRUE, TRUE>>, cone, 1) :
        cone \in {<<11, 1>>, <<10, 1>>}}

\* every combination of the field values, the events on the isolation
\* threshold, and an event without photons
GenEvents ==
    {Ev(pt, <<eta1, eta2>>, phi, <<PhotonE(pt[1], eta1), PhotonE(pt[2], eta2)>>,
        tight, cone, 1) :
        pt \in GenPt, eta1 \in GenEta, eta2 \in GenEta, phi \in GenPhi,
        tight \in GenTight, cone \in GenCone}
    \cup IsoEdgeEvents
    \cup {Ev(<<>>, <<>>, <<>>, <<>>, <<>>, <<>>, 1)}

\* what "try: events = tree.arrays(...)" gives for a file of the catalogue
CatalogueReads ==
    {[ok |-> ReadOk(f),
      events |-> IF ReadOk(f) THEN [i \in 1..Len(f.events) |-> Event(f.events[i])]
                 ELSE <<>>] : f \in Files}

\* ... and for a file holding one event of GenEvents
GenReads == {[ok |-> TRUE, events |-> <<g>>] : g \in GenEvents}

\* the masks in the order the loop body applies them
Masks == <<"n_photons", "tight_id_cut", "pt_cut", "iso_cut", "eta_cut", "mass_iso_cut">>

\* the value of a mask for one event
Cut(name, ev) ==
    CASE name = "n_photons" -> n_photons_cut(ev)
      [] name = "tight_id_cut" -> tight_id_cut(ev)
      [] name = "pt_cut" -> pt_cut(ev)
      [] name = "iso_cut" -> iso_cut(ev)
      [] name = "eta_cut" -> eta_cut(ev)
      [] name = "mass_iso_cut" -> mass_iso_cut(ev)

RECURSIVE ApplyMask_reversed(_, _)
\* the kept events collected last first
ApplyMask_reversed(events, name) ==
    IF events = <<>> THEN <<>>
    ELSE ApplyMask_reversed(Tail(events), name)
             \o (IF Cut(name, Head(events)) THEN <<Head(events)>> ELSE <<>>)

RECURSIVE ApplyMask(_, _)
\* events = events[mask]
ApplyMask(events, name) ==
    IF events = <<>> THEN <<>>
    ELSE (IF Cut(name, Head(events)) THEN <<Head(events)>> ELSE <<>>)
             \o ApplyMask(Tail(events), name)

InitLoader ==
    /\ pc = "f_open"
    /\ all_files \in 1..MaxFiles
    /\ file_idx = 0 /\ df_list = <<>> /\ file_log = <<>>
    /\ df_signal_mc = <<>>
    /\ out = {}
    /\ ev_batch = <<>> /\ ev_read = <<>> /\ ran = <<>>
    /\ m_yy_arr = NoMass
    /\ ph1_phi = 0 /\ ph2_phi = 0 /\ dphi = 0
    /\ CellsIdle

rest_vars == <<all_files, file_log, phi_vars, cells_vars>>

\* lines 179-190: open the next file and read its events.  Events outside
\* the catalogue are read while df_list is still empty.
FOpen ==
    /\ pc = "f_open"
    /\ file_idx < all_files
    /\ \E read \in CatalogueReads \cup GenReads :
          /\ df_list # <<>> => read \in CatalogueReads
          /\ Len(concat(df_list)) + Len(read.events) <= MaxRows
          /\ ev_read' = read.events
          /\ ev_batch' = read.events
          /\ IF ~read.ok
             THEN /\ out' = out \cup {Msg("error_opening_or_reading_file", "file", <<>>)}
                  /\ pc' = "f_next"
             ELSE IF Len(read.events) = 0
             THEN /\ out' = out \cup {Msg("no_events_in_file", "file", <<>>)}
                  /\ pc' = "f_next"
             ELSE /\ out' = out
                  /\ pc' = "f_n_photons"
    /\ ran' = <<>>
    /\ m_yy_arr' = NoMass
    /\ UNCHANGED <<file_idx, df_list, df_signal_mc, rest_vars>>

\* events = events[mask] without the test for an empty batch
MaskStep_no_continue(name, next) ==
    /\ ev_batch' = ApplyMask(ev_batch, name)
    /\ ran' = Append(ran, name)
    /\ pc' = next
    /\ UNCHANGED <<ev_read, file_idx, df_list, df_signal_mc, out, rest_vars>>

\* events = events[mask]; if len(events) == 0: continue
MaskStep(name, next) ==
    LET kept == ApplyMask(ev_batch, name)
    IN  /\ ev_batch' = kept
        /\ ran' = Append(ran, name)
        /\ pc' = (IF Len(kept) = 0 THEN "f_next" ELSE next)
        /\ UNCHANGED <<ev_read, file_idx, df_list, df_signal_mc, out, rest_vars>>

\* lines 194-196
FNPhotons ==
    /\ pc = "f_n_photons"
    /\ MaskStep("n_photons", "f_tight_id_cut")
    /\ UNCHANGED m_yy_arr

\* lines 204-206
FTightIdCut ==
    /\ pc = "f_tight_id_cut"
    /\ MaskStep("tight_id_cut", "f_pt_cut")
    /\ UNCHANGED m_yy_arr

\* lines 211-213
FPtCut ==
    /\ pc = "f_pt_cut"
    /\ MaskStep("pt_cut", "f_iso_cut")
    /\ UNCHANGED m_yy_arr

\* lines 216-219
FIsoCut ==
    /\ pc = "f_iso_cut"
    /\ MaskStep("iso_cut", "f_eta_cut")
    /\ UNCHANGED m_yy_arr

\* lines 222-225
FEtaCut ==
    /\ pc = "f_eta_cut"
    /\ MaskStep("eta_cut", "f_mass_iso_cut")
    /\ UNCHANGED m_yy_arr

\* lines 229-240: m_yy of every event still in the batch, then the mask
FMassIsoCut ==
    /\ pc = "f_mass_iso_cut"
    /\ LET m == [i \in 1..Len(ev_batch) |-> m_yy(ev_batch[i])]
       IN  m_yy_arr' =
               [all |-> m,
                kept |-> Take(m, {i \in 1..Len(ev_batch) : Cut("mass_iso_cut", ev_batch[i])})]
    /\ MaskStep("mass_iso_cut", "f_features")

\* lines 243-315: m_yy_final, the features, df_list.append
FFeatures ==
    /\ pc = "f_features"
    /\ df_list' = Append(df_list, MapRows(ev_batch, 1))
    /\ ran' = Append(ran, "features")
    /\ pc' = "f_next"
    /\ UNCHANGED <<ev_batch, ev_read, m_yy_arr, file_idx, df_signal_mc, out, rest_vars>>

\* line 179: the loop moves to the next file
FNext ==
    /\ pc = "f_next"
    /\ file_idx' = file_idx + 1
    /\ ev_batch' = <<>> /\ ev_read' = <<>> /\ ran' = <<>>
    /\ m_yy_arr' = NoMass
    /\ pc' = "f_open"
    /\ UNCHANGED <<df_list, df_signal_mc, out, rest_vars>>

\* lines 317-323
FReturn ==
    /\ pc = "f_open"
    /\ file_idx = all_files
    /\ df_signal_mc' = LoaderResult(df_list)
    /\ out' = (IF df_list = <<>> THEN out
               ELSE out \cup {Msg("finished_processing", "file", <<>>)})
    /\ pc' = "f_returned"
    /\ UNCHANGED <<body_vars, file_idx, df_list, rest_vars>>

NextLoader ==
    \/ FOpen
    \/ FNPhotons
    \/ FTightIdCut
    \/ FPtCut
    \/ FIsoCut
    \/ FEtaCut
    \/ FMassIsoCut
    \/ FFeatures
    \/ FNext
    \/ FReturn

SpecLoader == InitLoader /\ [][NextLoader]_vars

\* ------------------------------------------------------------------------
\* Properties
\* ------------------------------------------------------------------------
PastCombine == pc \in {"cell5", "cell6", "cell7", "cell8", "cell9", "done", "aborted"}
PastCell5 == pc \in {"cell6", "cell7", "cell8", "cell9", "done", "aborted"}

RowsOf(df) == {df[i] : i \in 1..Len(df)}

\* the number of rows of df equal to r
CountOf(df, r) == Cardinality({i \in 1..Len(df) : df[i] = r})

\* the same rows with the same multiplicities
SameRows(df1, df2) ==
    /\ Len(df1) = Len(df2)
    /\ \A r \in RowsOf(df1) \cup RowsOf(df2) : CountOf(df1, r) = CountOf(df2, r)

ModelWritten == mva_model_path \in DOMAIN disk
ScalerWritten == mva_scaler_path \in DOMAIN disk

\* --- C1 -----------------------------------------------------------------
\* the six preselection predicates, on the two leading photons, as exact
\* comparisons of the quantities the event holds
C1_SixPredicates(ev) ==
    /\ Len(ev.photon_pt) >= 2
    /\ ev.photon_isTightID[1] /\ ev.photon_isTightID[2]
    /\ ev.photon_pt[1] > 50 /\ ev.photon_pt[2] > 30
    /\ \A i \in {1, 2} : ev.photon_ptcone20[i] * 1000 < 55 * ev.photon_pt[i]
    /\ \A i \in {1, 2} :
          ~(Abs(ev.photon_eta[i]) > 137 /\ Abs(ev.photon_eta[i]) < 152)
    /\ \A i \in {1, 2} :
          /\ m_yy(ev) >= 0
          /\ ev.photon_pt[i] * 100 * 1000 > 350 * m_yy(ev)

\* C1: every row load_and_preprocess_mc_for_mva collects or returns was
\* computed from an event that has at least two photons, both leading
\* photons tight, pt > 50 and > 30, ptcone20/pt < 0.055, |eta| outside
\* (1.37, 1.52) and pt/m_yy > 0.35.
C1_RowsPassAllCuts ==
    /\ \A i \in 1..Len(df_list) : \A r \in RowsOf(df_list[i]) :
          C1_SixPredicates(Event(r.src))
    /\ \A r \in RowsOf(df_signal_mc) \cup RowsOf(df_background_mc) :
          C1_SixPredicates(Event(r.src))

\* both calls returned rows, one of them from the event on the eta boundary
C1_Witness ==
    /\ pc = "combine"
    /\ \E r \in RowsOf(df_signal_mc) : r.src = "B"
    /\ \E r \in RowsOf(df_background_mc) : r.src = "A"
    /\ \E i \in 1..Len(file_log) : file_log[i].ok /\ file_log[i].rows = <<>>

C3_BothEmptyHalts ==
    (PastCombine /\ empty(df_signal_mc) /\ empty(df_background_mc)) =>
        /\ Msg("error_both_empty", "both", <<>>) \in out
        /\ empty(df_combined_mc)
        /\ empty(X) /\ test_idx = {} /\ empty(X_train) /\ empty(X_test)
        /\ empty(X_train_scaled) /\ empty(X_test_scaled)
        /\ scaler.state # "fitted"
        /\ mlp_model.state # "fitted"
        /\ ~evaluated
        /\ DOMAIN disk = {}
        /\ pc # "aborted"

\* a run over files that were read but left no row, in a kernel that holds
\* the objects of an earlier run, has reached its end
C3_Witness ==
    /\ pc = "done"
    /\ empty(df_signal_mc) /\ empty(df_background_mc)
    /\ scaler = StaleScaler
    /\ Msg("no_files_found", "signal", <<>>) \notin out

\* --- C4 -----------------------------------------------------------------
RECURSIVE C4_RowsOfReadFiles(_)
\* the rows of the files that were read, in file order
C4_RowsOfReadFiles(log) ==
    IF log = <<>> THEN <<>>
    ELSE (IF Head(log).ok THEN Head(log).rows ELSE <<>>) \o C4_RowsOfReadFiles(Tail(log))

C4_Returned(df) ==
    /\ Len(file_log) = all_files
    /\ \A i \in 1..Len(file_log) :
          ~file_log[i].ok => file_log[i].printed = "error_opening_or_reading_file"
    /\ df = SelectSeq(C4_RowsOfReadFiles(file_log), NotNaN)

\* C4: when the loader returns, every matched file has been consumed, every
\* file that failed to read has been reported, and the table returned is
\* the rows of the files that were read, in file order.
C4_FailedFilesSkipped ==
    /\ pc = "background_glob" => C4_Returned(df_signal_mc)
    /\ pc = "combine" => C4_Returned(df_background_mc)

\* the first file failed, a later one was read and gave the returned rows
C4_WitnessFailFirst ==
    /\ pc = "combine"
    /\ Len(file_log) = 2
    /\ ~file_log[1].ok /\ file_log[2].ok
    /\ Len(df_background_mc) = 2
    /\ df_background_mc[1] # df_background_mc[2]

\* --- C5 -----------------------------------------------------------------
C5_Missing == {mva_features_list[i] : i \in 1..Len(mva_features_list)}
                  \ {Columns[i] : i \in 1..Len(Columns)}

\* C5: when a declared feature is not a column of the (non-empty) dataset,
\* cell 5 prints exactly the missing names and the available columns, and
\* no split, scaler fit, classifier fit, evaluation or dump follows.
C5_MissingFeatureHalts ==
    (PastCell5 /\ ~empty(df_combined_mc) /\ C5_Missing # {}) =>
        /\ \E m \in out :
              /\ m.tag = "error_missing_features"
              /\ {m.names[i] : i \in 1..Len(m.names)} = C5_Missing
        /\ Msg("available_columns", "cell5", Columns) \in out
        /\ empty(X) /\ test_idx = {} /\ empty(X_train_scaled) /\ empty(X_test_scaled)
        /\ scaler.state # "fitted"
        /\ mlp_model.state # "fitted"
        /\ ~evaluated
        /\ DOMAIN disk = {}

\* a run with rows of both labels and an undeclared column has reached its end
C5_Witness ==
    /\ pc = "done"
    /\ nunique([i \in 1..Len(df_combined_mc) |-> df_combined_mc[i].isSignal]) = 2
    /\ Len(df_combined_mc) >= 4
    /\ C5_Missing = {"ph1_isTightID"}

\* --- C6 -----------------------------------------------------------------
\* C6: the fitted mean_ and scale_ are those of the run that differs only
\* in the feature values of its test rows, and both partitions are
\* standardized with that one transform.
C6_ScalerIgnoresTestRows ==
    scaler.state = "fitted" =>
        /\ alt_scaler = scaler
        /\ Len(X_train) + Len(X_test) = Len(X)
        /\ X_train_scaled = StandardScaler_transform(scaler, X_train)
        /\ X_test_scaled = StandardScaler_transform(scaler, X_test)

\* a scaler fitted on two different training rows, with two test rows
C6_Witness ==
    /\ pc = "cell7"
    /\ scaler.state = "fitted"
    /\ Len(X_test) = 2
    /\ Len(X_train) >= 2 /\ X_train[1] # X_train[2]
    /\ \E j \in 1..Len(scaler.scale_) : scaler.mean_[j] # 0

\* --- C7 -----------------------------------------------------------------
\* the rows of df in the order of the seed-42 permutation
C7_Shuffled(df) == [i \in 1..Len(df) |-> df[Perm42(Len(df))[i] + 1]]

\* C7 as claimed: every non-empty dataset is the seed-42 shuffle of the
\* pooled rows, also when one input table is empty.
C7_AlwaysShuffled ==
    (PastCombine /\ ~empty(df_combined_mc)) =>
        df_combined_mc = C7_Shuffled(df_signal_mc \o df_background_mc)

\* C7 amended: with both tables non-empty the dataset is the seed-42
\* shuffle of the pooled rows; with one table empty it is the other table
\* in its loaded order.
C7_ShuffledWhenBoth ==
    PastCombine =>
        /\ (~empty(df_signal_mc) /\ ~empty(df_background_mc)) =>
              df_combined_mc = C7_Shuffled(df_signal_mc \o df_background_mc)
        /\ (~empty(df_signal_mc) /\ empty(df_background_mc)) =>
              df_combined_mc = df_signal_mc
        /\ (empty(df_signal_mc) /\ ~empty(df_background_mc)) =>
              df_combined_mc = df_background_mc

\* both tables non-empty and the shuffle moved a row
C7_Witness ==
    /\ pc = "cell5"
    /\ ~empty(df_signal_mc) /\ ~empty(df_background_mc)
    /\ df_combined_mc # df_signal_mc \o df_background_mc

\* --- C8 -----------------------------------------------------------------
\* C8 as claimed: a run whose dataset has a single label value does not
\* split, fit and persist a classifier.
C8_DegenerateNotPersisted ==
    ~(/\ pc = "done"
      /\ nunique(y) = 1 /\ Len(y_train) >= 2
      /\ mlp_model.state = "fitted"
      /\ ModelWritten)

\* --- C9 -----------------------------------------------------------------
C9_OneSided(full, side) ==
    /\ Msg("warning_empty", side, <<>>) \in out
    /\ SameRows(df_combined_mc, full)
    /\ (pc = "cell6" /\ C5_Missing = {}) => Len(X) = Len(full)

\* C9: with exactly one table empty the warning names the empty side, the
\* dataset holds exactly the rows of the other table, and cell 5 goes on to
\* define X from it.
C9_SingleSidedProceeds ==
    PastCombine =>
        /\ (~empty(df_signal_mc) /\ empty(df_background_mc)) =>
              C9_OneSided(df_signal_mc, "background")
        /\ (empty(df_signal_mc) /\ ~empty(df_background_mc)) =>
              C9_OneSided(df_background_mc, "signal")

\* only the background table has rows, and cell 5 defined X from them
C9_Witness ==
    /\ pc = "cell6"
    /\ empty(df_signal_mc) /\ Len(df_background_mc) >= 2
    /\ Len(X) = Len(df_background_mc)

\* --- C10 ----------------------------------------------------------------
C10_Labelled(df, labels) == \A r \in RowsOf(df) : r.isSignal \in labels

C11_LacksOnlyWeight(entry) ==
    /\ entry.readable
    /\ "mcEventWeight" \notin entry.branches
    /\ branches_to_read_mc \ {"mcEventWeight"} \subseteq entry.branches

\* C11 as claimed: a file that lacks only the mcEventWeight field is still
\* loaded, and every event of it that passes the cuts is emitted as a row
\* with eventWeight 1.0.
C11_MissingWeightDefaultsToOne ==
    \A i \in 1..Len(file_log) :
        C11_LacksOnlyWeight(file_log[i]) =>
            /\ Len(file_log[i].rows) = file_log[i].survivors
            /\ \A r \in RowsOf(file_log[i].rows) : r.eventWeight = 1

\* --- C12 ----------------------------------------------------------------
\* C12 as claimed: no run ends in an unhandled error, and a run that has
\* ended has executed cell 9, which reported both artifacts saved or the
\* saving skipped.
C12_EndsAtPersister ==
    /\ pc # "aborted"
    /\ pc = "done" =>
          \/ /\ Msg("model_saved", mva_model_path, <<>>) \in out
             /\ Msg("scaler_saved", mva_scaler_path, <<>>) \in out
          \/ Msg("skip_saving", "cell9", <<>>) \in out

\* --- C18 ----------------------------------------------------------------
\* C18: a scaler file, once written, holds the transform fitted in this run
\* on X_train, and the model file holds the classifier fitted on X_train
\* standardized with that transform; a run that skipped the split/scale
\* stage writes no scaler and no model, also when the kernel holds a scaler
\* of an earlier run.
C18_PersistedScalerIsThisRuns ==
    /\ ScalerWritten =>
          /\ disk[mva_scaler_path] = scaler
          /\ disk[mva_scaler_path].state = "fitted"
          /\ disk[mva_scaler_path] = StandardScaler_fit(X_train, mva_features_list)
          /\ Msg("features_scaled", "cell6", <<>>) \in out
          /\ ModelWritten
          /\ disk[mva_model_path].state = "fitted"
          /\ disk[mva_model_path].X_fit =
                 StandardScaler_transform(disk[mva_scaler_path], X_train)
    /\ Msg("skip_split_and_scale", "cell6", <<>>) \in out => DOMAIN disk = {}

\* both artifacts were written, the scaler being the one this run fitted on
\* two different training rows
C18_Witness ==
    /\ pc = "done"
    /\ ScalerWritten
    /\ Len(X_train) = 2 /\ X_train[1] # X_train[2]
    /\ disk[mva_scaler_path] # StaleScaler

\* --- C17 ----------------------------------------------------------------
\* the shorter way round the circle between two angles (1/100 rad)
C17_ShorterArc(a, b) ==
    LET d == Abs(a - b) % (2 * Pi100)
    IN  IF d <= 2 * Pi100 - d THEN d ELSE 2 * Pi100 - d

\* C17: for every pair of angles delta_phi_yy lies in [0, pi] and is the
\* shorter angular distance between them, also when phi1 - phi2 is negative
\* or past the +/-pi wrap-around.
C17_DeltaPhiInRange ==
    pc = "delta_phi_done" =>
        /\ 0 <= dphi /\ dphi <= Pi100
        /\ dphi = C17_ShorterArc(ph1_phi, ph2_phi)

\* phi1 = 3.0, phi2 = -3.0 gave 0.28
C17_Witness ==
    /\ pc = "delta_phi_done"
    /\ ph1_phi = 300 /\ ph2_phi = -300
    /\ dphi = 28

\* --- C13 ----------------------------------------------------------------
\* the end of one iteration of the file loop over events that were read
C13_IterationDone == pc = "f_next" /\ ev_read # <<>>

RECURSIVE C13_Permutations(_)
C13_Permutations(S) ==
    IF S = {} THEN {<<>>}
    ELSE UNION {{<<m>> \o o : o \in C13_Permutations(S \ {m})} : m \in S}

\* the six masks in every order
C13_Orders == C13_Permutations({Masks[i] : i \in 1..Len(Masks)})

\* the orders that apply the photon count first
C13_OrdersCountFirst ==
    {<<"n_photons">> \o o :
        o \in C13_Permutations({Masks[i] : i \in 1..Len(Masks)} \ {"n_photons"})}

\* every event a file can hold
C13_Events == GenEvents \cup {Event(id) : id \in Events}

\* for each event the masks that are true of it; a mask other than the
\* photon count is evaluated on events with two photons only
C13_Passed ==
    [ev \in C13_Events |->
        {m \in {Masks[k] : k \in 1..Len(Masks)} :
            /\ m = "n_photons" \/ n_photons(ev) >= 2
            /\ Cut(m, ev)}]

RECURSIVE C13_ApplyInOrder(_, _, _)
\* the masks applied in a given order to the events of evs at the indices
\* idx, stopping at an empty batch.  Every mask but the photon count takes
\* [:, 0] and [:, 1] of each event's photon list, an IndexError when an
\* event of the batch holds fewer than two.
C13_ApplyInOrder(order, idx, evs) ==
    IF order = <<>> \/ idx = {} THEN [raised |-> FALSE, kept |-> idx]
    ELSE IF Head(order) # "n_photons" /\ \E i \in idx : n_photons(evs[i]) < 2
    THEN [raised |-> TRUE, kept |-> {}]
    ELSE C13_ApplyInOrder(Tail(order),
                          {i \in idx : Head(order) \in C13_Passed[evs[i]]}, evs)

\* the indices of the events of a batch that satisfy all six predicates
C13_AllSix(evs) == {i \in 1..Len(evs) : C1_SixPredicates(evs[i])}

\* the events left at the end of an iteration are exactly the events read
\* that satisfy all six predicates, and the masks applied to the events
\* read in each of the orders leave the same events (the orders are tried
\* on the first file of a call, which can hold every batch a file can hold)
C13_SameInOrders(orders) ==
    C13_IterationDone =>
        LET all_six == C13_AllSix(ev_read)
        IN  /\ ev_batch = Take(ev_read, all_six)
            /\ file_idx = 0 =>
                  \A o \in orders :
                      C13_ApplyInOrder(o, 1..Len(ev_read), ev_read)
                          = [raised |-> FALSE, kept |-> all_six]

\* C13 as claimed: the survivors are the events satisfying all six
\* predicates, and the six masks applied in any order leave the same events.
C13_AnyOrder == C13_SameInOrders(C13_Orders)

\* C13 amended: the survivors are the events satisfying all six predicates,
\* and the six masks applied in any order that starts with the photon count
\* leave the same events.
C13_CountFirstOrders == C13_SameInOrders(C13_OrdersCountFirst)

\* a batch of which some events survive and some do not
C13_Witness ==
    /\ C13_IterationDone
    /\ file_idx = 0
    /\ Len(ev_read) >= 2
    /\ ev_batch # <<>> /\ Len(ev_batch) < Len(ev_read)

\* --- C14 ----------------------------------------------------------------
\* a pseudorapidity strictly inside the calorimeter transition region
C14_InCrack(eta) == Abs(eta) > 137 /\ Abs(eta) < 152

\* neither of the two leading photons is in the transition region
C14_Clear(ev) == ~C14_InCrack(ev.photon_eta[1]) /\ ~C14_InCrack(ev.photon_eta[2])

\* no event left after the pseudorapidity filter, and no row appended or
\* returned, has a leading or sub-leading photon in the transition region
C14_NoCrackLeft ==
    /\ (\E k \in 1..Len(ran) : ran[k] = "eta_cut") =>
           \A i \in 1..Len(ev_batch) : C14_Clear(ev_batch[i])
    /\ \A r \in RowsOf(concat(df_list)) \cup RowsOf(df_signal_mc) :
           ~C14_InCrack(r.ph1_eta) /\ ~C14_InCrack(r.ph2_eta)

\* C14: an event whose leading or sub-leading |eta| is strictly between 1.37
\* and 1.52 never appears after the pseudorapidity filter or in the output,
\* whatever its other fields are, and the filter drops nothing else: an
\* |eta| of exactly 1.37 or 1.52 stays.
C14_OpenTransitionBand ==
    [][/\ C14_NoCrackLeft'
       /\ pc = "f_eta_cut" =>
              ev_batch' = Take(ev_batch,
                               {i \in 1..Len(ev_batch) : C14_Clear(ev_batch[i])})]_vars

\* the filter has dropped an event with |eta| = 1.40 and kept one with |eta|
\* exactly 1.37 and 1.52
C14_Witness ==
    /\ pc = "f_mass_iso_cut"
    /\ ran[Len(ran)] = "eta_cut"
    /\ \E i \in 1..Len(ev_read) :
          /\ Len(ev_read[i].photon_eta) >= 2
          /\ ~C14_Clear(ev_read[i])
    /\ \A i \in 1..Len(ev_batch) : C14_Clear(ev_batch[i])
    /\ \E i \in 1..Len(ev_batch) :
          {Abs(ev_batch[i].photon_eta[1]), Abs(ev_batch[i].photon_eta[2])} = {137, 152}

\* --- C15 ----------------------------------------------------------------
\* the positions of the loop body at which a mask is applied
C15_MaskPcs ==
    {"f_n_photons", "f_tight_id_cut", "f_pt_cut", "f_iso_cut", "f_eta_cut",
     "f_mass_iso_cut"}

\* C15: when a mask leaves the batch empty the loop continues with the next
\* file: no later mask and no feature computation runs for the file, nothing
\* is appended to df_list or printed, no exception ends the call, and the
\* DataFrames appended for earlier files stay as they were.
C15_EmptyBatchSkipsFile ==
    [][/\ pc' # "aborted"
       /\ (pc \in C15_MaskPcs /\ ev_batch' = <<>>) =>
              /\ pc' = "f_next"
              /\ df_list' = df_list
              /\ out' = out
       /\ (pc = "f_next" /\ ev_batch = <<>>) =>
              /\ Len(ran) <= Len(Masks)
              /\ ran = SubSeq(Masks, 1, Len(ran))
              /\ pc' = "f_open"
              /\ file_idx' = file_idx + 1
              /\ df_list' = df_list]_vars

\* the second file's batch was emptied by the third mask, with the rows of
\* the first file in df_list
C15_Witness ==
    /\ pc = "f_next"
    /\ ev_read # <<>> /\ ev_batch = <<>>
    /\ Len(ran) = 3
    /\ file_idx = 1
    /\ df_list # <<>>

\* --- C16 ----------------------------------------------------------------
RECURSIVE C16_IsSubsequence(_, _)
\* s is t with some elements left out: same elements, same relative order
C16_IsSubsequence(s, t) ==
    IF s = <<>> THEN TRUE
    ELSE IF t = <<>> THEN FALSE
    ELSE IF Head(s) = Head(t) THEN C16_IsSubsequence(Tail(s), Tail(t))
    ELSE C16_IsSubsequence(s, Tail(t))

\* C16: every mask only removes events: the batch after it is a subsequence
\* of the batch before it, the kept events in their order with every field
\* as read; the feature step leaves the batch alone, and the batch it works
\* on is a subsequence of the events read from the file.
C16_FiltersOnlyRemove ==
    [][/\ pc \in C15_MaskPcs =>
              /\ C16_IsSubsequence(ev_batch', ev_batch)
              /\ ev_read' = ev_read
       /\ pc = "f_features" =>
              /\ ev_batch' = ev_batch
              /\ C16_IsSubsequence(ev_batch, ev_read)
              /\ LET df == df_list'[Len(df_list')]
                 IN  /\ Len(df) = Len(ev_batch)
                     /\ \A i \in 1..Len(df) :
                           /\ df[i].ph1_eta = ev_batch[i].photon_eta[1]
                           /\ df[i].ph2_eta = ev_batch[i].photon_eta[2]]_vars

\* two different events went through all six masks, in the order read
C16_Witness ==
    /\ pc = "f_features"
    /\ Len(ran) = Len(Masks)
    /\ Len(ev_batch) = 2
    /\ ev_batch[1] # ev_batch[2]
    /\ ev_batch = ev_read

\* --- C19 ----------------------------------------------------------------
\* a row inside the preselection bounds
C19_InBounds(r) ==
    /\ FGt(r.ph1_pt_norm, 350) /\ FGt(r.ph2_pt_norm, 350)
    /\ FLt(r.ph1_ptcone20_norm, 55) /\ FLt(r.ph2_ptcone20_norm, 55)

\* C19: the m_yy column the feature step appends is, event by event, the
\* mass the pt / m_yy cut used for the events it kept, and every row
\* appended or returned has ph1_pt_norm > 0.35, ph2_pt_norm > 0.35,
\* ph1_ptcone20_norm < 0.055 and ph2_ptcone20_norm < 0.055.
C19_FeaturesInsideBounds ==
    [][/\ pc = "f_features" =>
              LET df == df_list'[Len(df_list')]
              IN  /\ Len(df) = Len(m_yy_arr.kept)
                  /\ \A i \in 1..Len(df) : df[i].m_yy = m_yy_arr.kept[i]
       /\ \A r \in RowsOf(concat(df_list')) \cup RowsOf(df_signal_mc') :
              C19_InBounds(r)]_vars

\* the feature step has appended the rows of two events of different mass
C19_Witness ==
    /\ pc = "f_next"
    /\ ran # <<>> /\ ran[Len(ran)] = "features"
    /\ Len(m_yy_arr.kept) = 2
    /\ m_yy_arr.kept[1] # m_yy_arr.kept[2]
    /\ df_list # <<>> /\ Len(df_list[Len(df_list)]) = 2
====
